---- MODULE Spec2Model ----
(***************************************************************************)
(* A model of the two-layer agentic knowledge system:                      *)
(*   - parse_markdown_document (the document chunker), and                 *)
(*   - process_user_query (routing, dispatch and synthesis),               *)
(* both of src/two_layer_agentic_system.py.                                *)
(*                                                                         *)
(* A document is a sequence of lines.  A line is a top-level heading line  *)
(* ("# title"), a second-level heading line ("## title") or a text line;   *)
(* a text line with text "" is a whitespace-only line.                     *)
(***************************************************************************)
EXTENDS Integers, Sequences, FiniteSets, TLC

\* ------------------------------------------------------------------ bounds
\* Longest document, in lines.
MaxLines == 3

\* Most entries of a Directory a query is processed against.
MaxDir == 2

\* Longest scope list of a decision.
MaxScope == 2

\* ------------------------------------------------------- program constants
\* Mutant of sections_per_chunk: batches of three.
sections_per_chunk_three == 2 + 1

\* sections_per_chunk of the grouping fallback.
sections_per_chunk == 2

\* CHUNKS_DIR
CHUNKS_DIR == "chunks"

\* ------------------------------------------------------------- documents
Line(kind, text) == [kind |-> kind, text |-> text]

H1Titles == {"", "Overview", "Specs"}
H2Titles == {"", "Install", "Usage"}
TextLines == {"", "body"}

LineSet ==
    {Line("h1", t) : t \in H1Titles} \cup {Line("h2", t) : t \in H2Titles}
        \cup {Line("text", t) : t \in TextLines}

Documents == UNION {[1..n -> LineSet] : n \in 0..MaxLines}

\* File stems of the documents that are loaded (characters).
Stems == {<<"d", "o", "c">>, <<"m", "y", " ", "d", "-", "c">>}

\* str.strip() of one line's text is empty: only a text line or the title
\* part left by a split can be whitespace; "# ..." and "## ..." lines are not.
BlankLine(l) == l.kind \in {"text", "title"} /\ l.text = ""

\* not s.strip(), for a fragment s
IsBlank(s) == \A i \in 1..Len(s) : BlankLine(s[i])

\* s.strip(): leading and trailing whitespace-only lines are removed.
Strip(s) ==
    LET keep == {i \in 1..Len(s) : ~BlankLine(s[i])}
    IN  IF keep = {} THEN <<>>
        ELSE LET a == CHOOSE i \in keep : \A j \in keep : i <= j
                 b == CHOOSE i \in keep : \A j \in keep : j <= i
             IN  SubSeq(s, a, b)

\* The positions of the lines that start with the marker of heading `kind`,
\* in document order.
RECURSIVE HeadsFrom(_, _, _)
HeadsFrom(content, kind, i) ==
    IF i > Len(content) THEN <<>>
    ELSE IF content[i].kind = kind
         THEN <<i>> \o HeadsFrom(content, kind, i + 1)
         ELSE HeadsFrom(content, kind, i + 1)

\* re.split(r'^# ', content, flags=re.MULTILINE) (kind "h1") and
\* re.split(r'^## ', ...) (kind "h2"): element 1 is what precedes the first
\* marker; element k+1 is the k-th heading's title followed by the lines up
\* to the next marker.  (Python's index k is position k+1 here.)
ReSplit(content, kind) ==
    LET heads == HeadsFrom(content, kind, 1)
        n == Len(heads)
        stop(k) == IF k < n THEN heads[k + 1] - 1 ELSE Len(content)
    IN  [k \in 1..(n + 1) |->
            IF k = 1
            THEN SubSeq(content, 1, IF n = 0 THEN Len(content) ELSE heads[1] - 1)
            ELSE <<Line("title", content[heads[k - 1]].text)>>
                     \o SubSeq(content, heads[k - 1] + 1, stop(k - 1))]

\* section.split('\n', 1): lines[0].strip() and the rest
HeadingOf(section) == section[1].text
ContentOf(section) == Tail(section)

\* Path(file_path).stem.replace(' ', '_').replace('-', '_')
FilePrefix(stem) ==
    [i \in 1..Len(stem) |-> IF stem[i] \in {" ", "-"} THEN "_" ELSE stem[i]]

\* Mutant of SectionId: positions counted from 0.
SectionId_zeroBased(prefix, kind, n) == <<prefix, kind, n - 1>>

\* f"{file_prefix}_chapter_{h1_idx}" and f"{file_prefix}_group_{n}"
SectionId(prefix, kind, n) == <<prefix, kind, n>>

\* f"{CHUNKS_DIR}/{section_id}.txt"
ChunkFile(section_id) == <<CHUNKS_DIR, section_id>>

\* "\n\n".join(current_chunk_sections): every line of a section ends with
\* its own line break, so the separator puts two empty lines between two
\* neighbours.
RECURSIVE JoinSections(_)
JoinSections(sections) ==
    IF Len(sections) = 0 THEN <<>>
    ELSE IF Len(sections) = 1 THEN sections[1]
    ELSE sections[1] \o <<Line("text", ""), Line("text", "")>>
             \o JoinSections(Tail(sections))

\* ------------------------------------------------- insertion-ordered dict
\* A Python dict is modelled as the sequence of its items in insertion
\* order: [id, description, chunk_file], ids distinct.
Keys(d) == {d[i].id : i \in 1..Len(d)}

\* d[key]
Lookup(d, key) == d[CHOOSE i \in 1..Len(d) : d[i].id = key]

Entry(id, description, chunk_file) ==
    [id |-> id, description |-> description, chunk_file |-> chunk_file]

\* d[e.id] = {...}: a new key is appended, an existing key keeps its place
\* and gets the new value.
DictSet(d, e) ==
    IF e.id \in Keys(d)
    THEN [i \in 1..Len(d) |-> IF d[i].id = e.id THEN e ELSE d[i]]
    ELSE Append(d, e)

\* Mutant of AfterWrite: the entry is set and counted before the write is
\* tried, so a failed write leaves its entry behind.
AfterWrite_entryFirst(entries, count, e, ok) ==
    [entries |-> DictSet(entries, e), count |-> count + 1]

\* lines 142-154, 192-203 and 221-232: the try block around one chunk
\* write.  The entry is set and the count raised after the write, so a write
\* that raises leaves both as they were.
AfterWrite(entries, count, e, ok) ==
    IF ok THEN [entries |-> DictSet(entries, e), count |-> count + 1]
    ELSE [entries |-> entries, count |-> count]

\* ============================================================ the chunker
\* parse_markdown_document, run twice on the same document.
VARIABLES
    doc,                     \* content of the file (unchanged between runs)
    stem,                    \* Path(file_path).stem
    run,                     \* which run of parse_markdown_document: 1 or 2
    pcc,                     \* position in parse_markdown_document: "start",
                             \* "h1loop", "h2loop", "done" (line 234) or
                             \* "failed" (lines 107 and 110)
    h1_idx,                  \* Python index of the next h1_sections element
    h2_i,                    \* position of the next h2_sections element
    directory_entries,
    chunk_count,
    current_chunk_sections,
    current_chunk_titles,
    writes,                  \* history: every chunk write attempted in this run
    first_run                \* what run 1 returned and wrote

cvars == <<doc, stem, run, pcc, h1_idx, h2_i, directory_entries, chunk_count,
           current_chunk_sections, current_chunk_titles, writes, first_run>>

\* process_user_query
VARIABLES
    directory,               \* the Directory the query is processed against
    pcq,                     \* position in process_user_query
    agent_a_decision,        \* what query_agent_a returned
    sub_query,
    scope_list,
    chunk_files,             \* the files still to be read by the dispatch
    combined_chunks,         \* the context assembled so far
    agent_r_response,
    final_response,          \* what process_user_query returned
    events                   \* history: collaborator calls and chunk reads

qvars == <<directory, pcq, agent_a_decision, sub_query, scope_list, chunk_files,
           combined_chunks, agent_r_response, final_response, events>>

\* the directory store: load_document with main's reload, and
\* build_knowledge_directory
VARIABLES
    directory_file,          \* what directory.json holds
    pcs,                     \* position in load_document and main's reload
                             \* ("ld_..."), or in build_knowledge_directory
                             \* ("bk_...")
    files,                   \* for each file still to be parsed, the entries
                             \* parse_markdown_document returns for it
    new_entries,             \* the entries of the file parsed last
    directory_local,         \* the local `directory` of load_document and of
                             \* build_knowledge_directory
    store_log                \* history: every load, update and save

svars == <<directory_file, pcs, files, new_entries, directory_local, store_log>>

\* demo_system
VARIABLE
    pcd                      \* position in the loop of demo_system

dvars == <<pcd>>

vars == <<cvars, qvars, svars, dvars>>

\* directory.json: absent, present but not to be read (open or decoding
\* raises), present with text that is no JSON ("unparsable"), JSON that is no
\* object ("not_object"), or a stored Directory d ("valid").
File(state, d) == [state |-> state, dir |-> d]

\* A value held in a local `directory`: a mapping with entries d, or the
\* non-object json.load gave.
Value(mapping, d) == [mapping |-> mapping, d |-> d]

\* The "scope" of a decision: a single id (type "str"), a list of ids, absent
\* (None) or a value of another type.
Scope(type, ids) == [type |-> type, ids |-> ids]
NoScope == Scope("none", <<>>)

\* "needs_reference": the booleans, absent, or a non-boolean that Python
\* takes as true ("truthy", e.g. "yes") or as false ("falsy", e.g. 0).
\* "answer": a string, absent, or not a string.
\* "sub_query": a non-empty string, the empty string, or absent.
Decision(kind, nr, answer, scope, sq) ==
    [kind |-> kind, needs_reference |-> nr, answer |-> answer,
     scope |-> scope, sub_query |-> sq]

NoDecision == Decision("none", "missing", "<missing>", NoScope, "<missing>")

\* A message: what it says and the ids it names.
Msg(kind, ids) == [kind |-> kind, ids |-> ids]
NoMsg == Msg("none", <<>>)

h1_sections == ReSplit(doc, "h1")
h2_sections == ReSplit(doc, "h2")
file_prefix == FilePrefix(stem)

NoRun == [entries |-> <<>>, count |-> -1, writes |-> <<>>]

\* A write attempt as the history keeps it.  pos names the chunk by where
\* its first heading is: the split and the Python index of its section.
WriteRec(id, description, content, ok, pos) ==
    [id |-> id, description |-> description, content |-> content,
     ok |-> ok, pos |-> pos]

ChunkerInit ==
    /\ doc \in Documents
    /\ stem \in Stems
    /\ run = 1
    /\ pcc = "start"
    /\ h1_idx = 0
    /\ h2_i = 0
    /\ directory_entries = <<>>
    /\ chunk_count = 0
    /\ current_chunk_sections = <<>>
    /\ current_chunk_titles = <<>>
    /\ writes = <<>>
    /\ first_run = NoRun
    \* no query is processed while the chunker is studied
    /\ directory = <<>>
    /\ pcq = "off"
    /\ agent_a_decision = NoDecision
    /\ sub_query = "<missing>"
    /\ scope_list = <<>>
    /\ chunk_files = <<>>
    /\ combined_chunks = <<>>
    /\ agent_r_response = NoMsg
    /\ final_response = NoMsg
    /\ events = <<>>
    \* nor is the store or the demo run
    /\ directory_file = File("absent", <<>>)
    /\ pcs = "off"
    /\ files = <<>>
    /\ new_entries = <<>>
    /\ directory_local = Value(TRUE, <<>>)
    /\ store_log = <<>>
    /\ pcd = "off"

\* lines 102-116: the file is read; the counters start empty.
ReadDocument ==
    /\ pcc = "start"
    /\ UNCHANGED <<qvars, svars, dvars>>
    /\ pcc' = "h1loop"
    /\ h1_idx' = 0
    /\ UNCHANGED <<doc, stem, run, h2_i, directory_entries, chunk_count,
                   current_chunk_sections, current_chunk_titles, writes,
                   first_run>>

\* lines 105-110: the file cannot be read: return {}, 0.
ReadDocumentFails ==
    /\ pcc = "start"
    /\ UNCHANGED <<qvars, svars, dvars>>
    /\ pcc' = "failed"
    /\ UNCHANGED <<doc, stem, run, h1_idx, h2_i, directory_entries, chunk_count,
                   current_chunk_sections, current_chunk_titles, writes,
                   first_run>>

\* lines 122-128: a blank fragment, and the fragment before the first
\* top-level heading, are passed over.
H1Skip ==
    /\ pcc = "h1loop"
    /\ UNCHANGED <<qvars, svars, dvars>>
    /\ h1_idx < Len(h1_sections)
    /\ (IsBlank(h1_sections[h1_idx + 1]) \/ h1_idx = 0)
    /\ h1_idx' = h1_idx + 1
    /\ UNCHANGED <<doc, stem, run, pcc, h2_i, directory_entries, chunk_count,
                   current_chunk_sections, current_chunk_titles, writes,
                   first_run>>

\* lines 130-154: one top-level section is written as a chunk; the entry is
\* added and counted only when the write succeeded.
H1Write(ok) ==
    /\ pcc = "h1loop"
    /\ UNCHANGED <<qvars, svars, dvars>>
    /\ h1_idx < Len(h1_sections)
    /\ ~IsBlank(h1_sections[h1_idx + 1])
    /\ h1_idx # 0
    /\ LET h1_section == h1_sections[h1_idx + 1]
           h1_heading == HeadingOf(h1_section)
           h1_content == ContentOf(h1_section)
           section_id == SectionId(file_prefix, "chapter", h1_idx)
           chunk_file == ChunkFile(section_id)
           chunk_content == <<Line("h1", h1_heading)>> \o h1_content
       IN  /\ writes' = Append(writes,
                   WriteRec(section_id, <<h1_heading>>, Strip(chunk_content), ok,
                            <<"h1", h1_idx>>))
           /\ LET after == AfterWrite(directory_entries, chunk_count,
                       Entry(section_id, <<h1_heading>>, chunk_file), ok)
              IN  /\ directory_entries' = after.entries
                  /\ chunk_count' = after.count
    /\ h1_idx' = h1_idx + 1
    /\ UNCHANGED <<doc, stem, run, pcc, h2_i, current_chunk_sections,
                   current_chunk_titles, first_run>>

\* lines 156-166: after the loop, the H2 grouping starts when no chunk was
\* counted; otherwise the function returns.
H1LoopEnd ==
    /\ pcc = "h1loop"
    /\ UNCHANGED <<qvars, svars, dvars>>
    /\ h1_idx = Len(h1_sections)
    /\ IF chunk_count = 0
       THEN /\ pcc' = "h2loop"
            /\ h2_i' = 1          \* enumerate(h2_sections[1:], 1)
            /\ current_chunk_sections' = <<>>
            /\ current_chunk_titles' = <<>>
       ELSE /\ pcc' = "done"
            /\ UNCHANGED <<h2_i, current_chunk_sections, current_chunk_titles>>
    /\ UNCHANGED <<doc, stem, run, h1_idx, directory_entries, chunk_count,
                   writes, first_run>>

\* lines 166-168: a blank second-level section is passed over.
H2Skip ==
    /\ pcc = "h2loop"
    /\ UNCHANGED <<qvars, svars, dvars>>
    /\ h2_i < Len(h2_sections)
    /\ IsBlank(h2_sections[h2_i + 1])
    /\ h2_i' = h2_i + 1
    /\ UNCHANGED <<doc, stem, run, pcc, h1_idx, directory_entries, chunk_count,
                   current_chunk_sections, current_chunk_titles, writes,
                   first_run>>

\* A description is a sequence of words: a heading title alone, or the
\* titles of a batch around "and".
\* lines 186-190: the description of a full batch
BatchDescription(titles) ==
    IF Len(titles) = 1 THEN <<titles[1]>>
    ELSE <<titles[1], "and", titles[Len(titles)]>>

\* lines 216-219: the description of the batch left at the end
RestDescription(titles) ==
    IF Len(titles) = 1 THEN <<titles[1]>>
    ELSE <<titles[1], "and others">>

\* lines 170-207: one second-level section joins the batch; a batch that
\* reached sections_per_chunk is written as a chunk and the batch restarts.
H2Section(ok) ==
    /\ pcc = "h2loop"
    /\ UNCHANGED <<qvars, svars, dvars>>
    /\ h2_i < Len(h2_sections)
    /\ ~IsBlank(h2_sections[h2_i + 1])
    /\ LET section == h2_sections[h2_i + 1]
           heading == HeadingOf(section)
           section_content == ContentOf(section)
           sections == Append(current_chunk_sections,
                              <<Line("h2", heading)>> \o section_content)
           titles == Append(current_chunk_titles, heading)
           section_id == SectionId(file_prefix, "group",
                                   Len(directory_entries) + 1)
           chunk_file == ChunkFile(section_id)
           description == BatchDescription(titles)
       IN  IF Len(sections) >= sections_per_chunk
           THEN /\ writes' = Append(writes,
                        WriteRec(section_id, description,
                                 Strip(JoinSections(sections)), ok,
                                 <<"h2", h2_i - Len(current_chunk_sections)>>))
                /\ LET after == AfterWrite(directory_entries, chunk_count,
                            Entry(section_id, description, chunk_file), ok)
                   IN  /\ directory_entries' = after.entries
                       /\ chunk_count' = after.count
                /\ current_chunk_sections' = <<>>
                /\ current_chunk_titles' = <<>>
           ELSE /\ current_chunk_sections' = sections
                /\ current_chunk_titles' = titles
                /\ UNCHANGED <<writes, directory_entries, chunk_count>>
    /\ h2_i' = h2_i + 1
    /\ UNCHANGED <<doc, stem, run, pcc, h1_idx, first_run>>

\* lines 209-232: the batch left at the end of the loop is written as a
\* chunk of its own; then the function returns.
H2Flush(ok) ==
    /\ pcc = "h2loop"
    /\ UNCHANGED <<qvars, svars, dvars>>
    /\ h2_i = Len(h2_sections)
    /\ IF current_chunk_sections # <<>>
       THEN LET section_id == SectionId(file_prefix, "group",
                                       Len(directory_entries) + 1)
                chunk_file == ChunkFile(section_id)
                description == RestDescription(current_chunk_titles)
            IN  /\ writes' = Append(writes,
                        WriteRec(section_id, description,
                                 Strip(JoinSections(current_chunk_sections)), ok,
                                 <<"h2", h2_i - Len(current_chunk_sections)>>))
                /\ LET after == AfterWrite(directory_entries, chunk_count,
                            Entry(section_id, description, chunk_file), ok)
                   IN  /\ directory_entries' = after.entries
                       /\ chunk_count' = after.count
       ELSE UNCHANGED <<writes, directory_entries, chunk_count>>
    /\ pcc' = "done"
    /\ UNCHANGED <<doc, stem, run, h1_idx, h2_i, current_chunk_sections,
                   current_chunk_titles, first_run>>

\* line 234 of run 1: return directory_entries, chunk_count; the caller
\* then parses the same file again.
ParseAgain ==
    /\ pcc \in {"done", "failed"}
    /\ UNCHANGED <<qvars, svars, dvars>>
    /\ run = 1
    /\ first_run' = [entries |-> directory_entries, count |-> chunk_count,
                     writes |-> writes]
    /\ run' = 2
    /\ pcc' = "start"
    /\ h1_idx' = 0
    /\ h2_i' = 0
    /\ directory_entries' = <<>>
    /\ chunk_count' = 0
    /\ current_chunk_sections' = <<>>
    /\ current_chunk_titles' = <<>>
    /\ writes' = <<>>
    /\ UNCHANGED <<doc, stem>>

ChunkerNext ==
    \/ ReadDocument
    \/ ReadDocumentFails
    \/ H1Skip
    \/ \E ok \in BOOLEAN : H1Write(ok)
    \/ H1LoopEnd
    \/ H2Skip
    \/ \E ok \in BOOLEAN : H2Section(ok)
    \/ \E ok \in BOOLEAN : H2Flush(ok)
    \/ ParseAgain

\* ============================================================= the query
\* process_user_query against a Directory, with its three collaborators
\* (gatekeeper, reference agent, synthesis) and the chunk files as the
\* environment.

\* The section ids of the scenario: doc_chapter_1, doc_chapter_2 and
\* doc_chapter_9.
QueryIds == {SectionId(<<"d", "o", "c">>, "chapter", n) : n \in {1, 2, 9}}

\* The description an id carries in the Directories considered.
DescriptionOf(id) ==
    CASE id[3] = 1 -> <<"Overview">>
      [] id[3] = 2 -> <<"Specs">>
      [] OTHER -> <<"Appendix">>

\* The chunk files that exist to be named as locations.
Locations == {<<CHUNKS_DIR, <<<<"d", "o", "c">>, "chapter", n>>>> : n \in {1, 2}}

DirEntries ==
    {Entry(id, DescriptionOf(id), f) : id \in QueryIds, f \in Locations}

\* Every Directory of at most MaxDir entries: any ids, any insertion order,
\* locations shared or not.
Directories ==
    {d \in UNION {[1..n -> DirEntries] : n \in 0..MaxDir} :
        \A i, j \in 1..Len(d) : i # j => d[i].id # d[j].id}

Scopes ==
    {Scope("str", <<id>>) : id \in QueryIds}
        \cup {Scope("list", l) : l \in UNION {[1..n -> QueryIds] : n \in 0..MaxScope}}
        \cup {NoScope, Scope("number", <<>>)}

\* What the gatekeeper call can come to: the call fails, the text is not
\* JSON, the text is JSON but no object, or it is an object.
GatekeeperOutcomes ==
    {Decision(k, "missing", "<missing>", NoScope, "<missing>") :
        k \in {"call_fails", "malformed_json", "number", "array"}}
    \cup {Decision("object", nr, a, NoScope, "<missing>") :
            nr \in {"false", "missing", "falsy"},
            a \in {"text", "<missing>", "<nonstring>"}}
    \cup {Decision("object", nr, "<missing>", sc, sq) :
            nr \in {"true", "truthy"}, sc \in Scopes,
            sq \in {"q", "", "<missing>"}}

\* lines 323-348: query_agent_a returns the parsed JSON value, or
\* {"error": ...} when the call raised or the text was not JSON.
AgentADecision(outcome) ==
    IF outcome.kind \in {"call_fails", "malformed_json"}
    THEN Decision("error", "missing", "<missing>", NoScope, "<missing>")
    ELSE outcome

\* One piece of the context given to the reference agent: the delimiter line
\* of section i with a description, a chunk body, or an error marker.
Header(i, desc) == [t |-> "header", i |-> i, desc |-> desc, file |-> <<>>]
Body(file) == [t |-> "body", i |-> 0, desc |-> <<>>, file |-> file]
ErrorMarker(file) == [t |-> "error", i |-> 0, desc |-> <<>>, file |-> file]

\* An entry of the history.
Ev(e, out, file, ctx, sq) ==
    [e |-> e, out |-> out, file |-> file, ctx |-> ctx, sq |-> sq]

\* not agent_a_decision.get("needs_reference", False) is false
Truthy(nr) == nr \in {"true", "truthy"}

\* Mutant of MissingScopes: when an id is missing the whole scope is
\* reported.
MissingScopes_wholeScope(scope, dir) ==
    IF \E i \in 1..Len(scope) : scope[i] \notin Keys(dir) THEN scope ELSE <<>>

\* line 551: [s for s in scope_list if s not in directory]
RECURSIVE MissingScopes(_, _)
MissingScopes(scope, dir) ==
    IF scope = <<>> THEN <<>>
    ELSE IF Head(scope) \notin Keys(dir)
         THEN <<Head(scope)>> \o MissingScopes(Tail(scope), dir)
         ELSE MissingScopes(Tail(scope), dir)

\* Mutant of ChunkFilesOf: the files are collected by walking the Directory,
\* so they come in the Directory's order.
RECURSIVE ChunkFilesOf_directoryOrder(_, _)
ChunkFilesOf_directoryOrder(scope, dir) ==
    IF dir = <<>> THEN <<>>
    ELSE IF \E i \in 1..Len(scope) : scope[i] = Head(dir).id
         THEN <<Head(dir).chunk_file>> \o ChunkFilesOf_directoryOrder(scope, Tail(dir))
         ELSE ChunkFilesOf_directoryOrder(scope, Tail(dir))

\* line 566: [directory[s]["chunk_file"] for s in scope_list]
ChunkFilesOf(scope, dir) ==
    [i \in 1..Len(scope) |-> Lookup(dir, scope[i]).chunk_file]

\* lines 430-434: the description of the first Directory item, in iteration
\* order, whose chunk_file is the file just read.
SectionDesc(dir, chunk_file) ==
    IF \E k \in 1..Len(dir) : dir[k].chunk_file = chunk_file
    THEN dir[CHOOSE k \in 1..Len(dir) :
                /\ dir[k].chunk_file = chunk_file
                /\ \A j \in 1..(k - 1) : dir[j].chunk_file # chunk_file].description
    ELSE <<"Unknown Section">>

\* Mutant of SynthesisResult: a failed synthesis is reported instead of
\* falling back.
SynthesisResult_reportsError(response, outcome) ==
    IF outcome = "ok" THEN Msg("synthesized", <<>>)
    ELSE Msg("synthesis_error", <<>>)

\* lines 486-498: the synthesized text, or agent_r_response when the client
\* or the call raised.
SynthesisResult(response, outcome) ==
    IF outcome = "ok" THEN Msg("synthesized", <<>>) ELSE response

ReadOutcomes == {"ok", "missing", "unreadable"}
CallOutcomes == {"ok", "init_fails", "call_fails"}

QueryInit ==
    /\ directory \in Directories
    /\ pcq = "start"
    /\ agent_a_decision = NoDecision
    /\ sub_query = "<missing>"
    /\ scope_list = <<>>
    /\ chunk_files = <<>>
    /\ combined_chunks = <<>>
    /\ agent_r_response = NoMsg
    /\ final_response = NoMsg
    /\ events = <<>>
    \* no document is parsed while a query is studied
    /\ doc = <<>>
    /\ stem = <<"d", "o", "c">>
    /\ run = 1
    /\ pcc = "off"
    /\ h1_idx = 0
    /\ h2_i = 0
    /\ directory_entries = <<>>
    /\ chunk_count = 0
    /\ current_chunk_sections = <<>>
    /\ current_chunk_titles = <<>>
    /\ writes = <<>>
    /\ first_run = NoRun
    \* nor is the store or the demo run
    /\ directory_file = File("absent", <<>>)
    /\ pcs = "off"
    /\ files = <<>>
    /\ new_entries = <<>>
    /\ directory_local = Value(TRUE, <<>>)
    /\ store_log = <<>>
    /\ pcd = "off"

\* line 519: the gatekeeper is asked and its decision comes back.
QueryAgentA(outcome) ==
    /\ pcq = "start"
    /\ agent_a_decision' = AgentADecision(outcome)
    /\ events' = Append(events, Ev("query_agent_a", outcome.kind, <<>>, <<>>, ""))
    /\ pcq' = "routed"
    /\ UNCHANGED <<directory, sub_query, scope_list, chunk_files,
                   combined_chunks, agent_r_response, final_response>>
    /\ UNCHANGED <<cvars, svars, dvars>>

\* lines 522-523: an error decision ends the query with "please rephrase".
RouteError ==
    /\ pcq = "routed"
    /\ agent_a_decision.kind = "error"
    /\ final_response' = Msg("rephrase", <<>>)
    /\ pcq' = "returned"
    /\ UNCHANGED <<directory, agent_a_decision, sub_query, scope_list,
                   chunk_files, combined_chunks, agent_r_response, events>>
    /\ UNCHANGED <<cvars, svars, dvars>>

\* lines 522 and 526: a decision that is a number has no "in", one that is
\* an array has no "get": the exception leaves process_user_query.
RouteRaises ==
    /\ pcq = "routed"
    /\ agent_a_decision.kind \in {"number", "array"}
    /\ pcq' = "raised"
    /\ UNCHANGED <<directory, agent_a_decision, sub_query, scope_list,
                   chunk_files, combined_chunks, agent_r_response,
                   final_response, events>>
    /\ UNCHANGED <<cvars, svars, dvars>>

\* lines 526-529: needs_reference is absent or false in Python's sense: the
\* "answer" value is returned, or the stock sentence when it is absent.
RouteDirect ==
    /\ pcq = "routed"
    /\ agent_a_decision.kind = "object"
    /\ ~Truthy(agent_a_decision.needs_reference)
    /\ final_response' =
           Msg(CASE agent_a_decision.answer = "text" -> "answer"
                 [] agent_a_decision.answer = "<missing>" -> "no_proper_response"
                 [] OTHER -> "answer_not_a_string", <<>>)
    /\ pcq' = "returned"
    /\ UNCHANGED <<directory, agent_a_decision, sub_query, scope_list,
                   chunk_files, combined_chunks, agent_r_response, events>>
    /\ UNCHANGED <<cvars, svars, dvars>>

\* lines 533-545: a scope that is neither a string nor a list ends the query.
RouteScopeFormat ==
    /\ pcq = "routed"
    /\ agent_a_decision.kind = "object"
    /\ Truthy(agent_a_decision.needs_reference)
    /\ agent_a_decision.scope.type \notin {"str", "list"}
    /\ final_response' = Msg("scope_format", <<>>)
    /\ pcq' = "returned"
    /\ UNCHANGED <<directory, agent_a_decision, sub_query, scope_list,
                   chunk_files, combined_chunks, agent_r_response, events>>
    /\ UNCHANGED <<cvars, svars, dvars>>

\* lines 533-553: the scope is put in a list; ids that are no key of the
\* Directory end the query with a message that lists them.
RouteMissing ==
    /\ pcq = "routed"
    /\ agent_a_decision.kind = "object"
    /\ Truthy(agent_a_decision.needs_reference)
    /\ agent_a_decision.scope.type \in {"str", "list"}
    /\ LET missing_scopes == MissingScopes(agent_a_decision.scope.ids, directory)
       IN  /\ missing_scopes # <<>>
           /\ final_response' = Msg("missing_scopes", missing_scopes)
    /\ scope_list' = agent_a_decision.scope.ids
    /\ sub_query' = agent_a_decision.sub_query
    /\ pcq' = "returned"
    /\ UNCHANGED <<directory, agent_a_decision, chunk_files, combined_chunks,
                   agent_r_response, events>>
    /\ UNCHANGED <<cvars, svars, dvars>>

\* lines 533-572: every id of the scope is a key: query_agent_r_single is
\* called for one id, query_agent_r_multiple otherwise.
RouteDispatch ==
    /\ pcq = "routed"
    /\ agent_a_decision.kind = "object"
    /\ Truthy(agent_a_decision.needs_reference)
    /\ agent_a_decision.scope.type \in {"str", "list"}
    /\ MissingScopes(agent_a_decision.scope.ids, directory) = <<>>
    /\ scope_list' = agent_a_decision.scope.ids
    /\ sub_query' = agent_a_decision.sub_query
    /\ chunk_files' = ChunkFilesOf(agent_a_decision.scope.ids, directory)
    /\ combined_chunks' = <<>>
    /\ IF Len(agent_a_decision.scope.ids) = 1
       THEN /\ pcq' = "single_read"
            /\ events' = Append(events,
                   Ev("query_agent_r_single", "", <<>>, <<>>,
                      agent_a_decision.sub_query))
       ELSE /\ pcq' = "multi_loop"
            /\ events' = Append(events,
                   Ev("query_agent_r_multiple", "", <<>>, <<>>,
                      agent_a_decision.sub_query))
    /\ UNCHANGED <<directory, agent_a_decision, agent_r_response,
                   final_response>>
    /\ UNCHANGED <<cvars, svars, dvars>>

\* lines 386-389 and 403-406: the one chunk is read; a missing file and any
\* other failure each become the returned text.
ReadChunkSingle(outcome) ==
    /\ pcq = "single_read"
    /\ LET chunk_file == Head(chunk_files)
       IN  /\ events' = Append(events, Ev("read", outcome, chunk_file, <<>>, ""))
           /\ CASE outcome = "ok" ->
                    /\ combined_chunks' = <<Body(chunk_file)>>
                    /\ pcq' = "single_invoke"
                    /\ UNCHANGED agent_r_response
                [] outcome = "missing" ->
                    /\ agent_r_response' = Msg("chunk_file_not_found", <<>>)
                    /\ pcq' = "synthesize"
                    /\ UNCHANGED combined_chunks
                [] OTHER ->
                    /\ agent_r_response' = Msg("error_querying_agent_r", <<>>)
                    /\ pcq' = "synthesize"
                    /\ UNCHANGED combined_chunks
    /\ chunk_files' = Tail(chunk_files)
    /\ UNCHANGED <<directory, agent_a_decision, sub_query, scope_list,
                   final_response>>
    /\ UNCHANGED <<cvars, svars, dvars>>

\* lines 391-406: the reference agent is asked about the one chunk.
InvokeAgentRSingle(outcome) ==
    /\ pcq = "single_invoke"
    /\ events' =
           IF outcome = "init_fails" THEN events
           ELSE Append(events,
                    Ev("reference_invoke", outcome, <<>>, combined_chunks, sub_query))
    /\ agent_r_response' =
           IF outcome = "ok" THEN Msg("reference_answer", <<>>)
           ELSE Msg("error_querying_agent_r", <<>>)
    /\ pcq' = "synthesize"
    /\ UNCHANGED <<directory, agent_a_decision, sub_query, scope_list,
                   chunk_files, combined_chunks, final_response>>
    /\ UNCHANGED <<cvars, svars, dvars>>

\* lines 424-441 and 455-456: the next chunk of the scope is read.  Read: its
\* delimiter line and body are added.  Missing file: an error marker is
\* added.  Any other failure: the exception reaches the outer handler and
\* query_agent_r_multiple returns its error text.
ReadChunkMultiple(outcome) ==
    /\ pcq = "multi_loop"
    /\ chunk_files # <<>>
    /\ LET chunk_file == Head(chunk_files)
           i == Len(scope_list) - Len(chunk_files) + 1
       IN  /\ events' = Append(events, Ev("read", outcome, chunk_file, <<>>, ""))
           /\ CASE outcome = "ok" ->
                    /\ combined_chunks' = combined_chunks \o
                           <<Header(i, SectionDesc(directory, chunk_file)),
                             Body(chunk_file)>>
                    /\ UNCHANGED <<pcq, agent_r_response>>
                [] outcome = "missing" ->
                    /\ combined_chunks' =
                           Append(combined_chunks, ErrorMarker(chunk_file))
                    /\ UNCHANGED <<pcq, agent_r_response>>
                [] OTHER ->
                    /\ agent_r_response' = Msg("error_querying_agent_r_multiple", <<>>)
                    /\ pcq' = "synthesize"
                    /\ UNCHANGED combined_chunks
    /\ chunk_files' = Tail(chunk_files)
    /\ UNCHANGED <<directory, agent_a_decision, sub_query, scope_list,
                   final_response>>
    /\ UNCHANGED <<cvars, svars, dvars>>

\* lines 443-456: after the loop the reference agent is asked once about the
\* combined context.
InvokeAgentRMultiple(outcome) ==
    /\ pcq = "multi_loop"
    /\ chunk_files = <<>>
    /\ events' =
           IF outcome = "init_fails" THEN events
           ELSE Append(events,
                    Ev("reference_invoke", outcome, <<>>, combined_chunks, sub_query))
    /\ agent_r_response' =
           IF outcome = "ok" THEN Msg("reference_answer", <<>>)
           ELSE Msg("error_querying_agent_r_multiple", <<>>)
    /\ pcq' = "synthesize"
    /\ UNCHANGED <<directory, agent_a_decision, sub_query, scope_list,
                   chunk_files, combined_chunks, final_response>>
    /\ UNCHANGED <<cvars, svars, dvars>>

\* lines 574-578 and 467-498: synthesize_response is called with what the
\* dispatch returned, and its result is the final response.
Synthesize(outcome) ==
    /\ pcq = "synthesize"
    /\ events' = Append(events, Ev("synthesize_response", outcome, <<>>, <<>>, ""))
    /\ final_response' = SynthesisResult(agent_r_response, outcome)
    /\ pcq' = "returned"
    /\ UNCHANGED <<directory, agent_a_decision, sub_query, scope_list,
                   chunk_files, combined_chunks, agent_r_response>>
    /\ UNCHANGED <<cvars, svars, dvars>>

QueryNext ==
    \/ \E outcome \in GatekeeperOutcomes : QueryAgentA(outcome)
    \/ RouteError
    \/ RouteRaises
    \/ RouteDirect
    \/ RouteScopeFormat
    \/ RouteMissing
    \/ RouteDispatch
    \/ \E outcome \in ReadOutcomes : ReadChunkSingle(outcome)
    \/ \E outcome \in CallOutcomes : InvokeAgentRSingle(outcome)
    \/ \E outcome \in ReadOutcomes : ReadChunkMultiple(outcome)
    \/ \E outcome \in CallOutcomes : InvokeAgentRMultiple(outcome)
    \/ \E outcome \in CallOutcomes : Synthesize(outcome)

\* ------------------------------------------------------- specifications
\* parse_markdown_document alone, run twice on one document.
SpecChunker == ChunkerInit /\ [][ChunkerNext]_vars

\* process_user_query alone, against any Directory.
SpecQuery == QueryInit /\ [][QueryNext]_vars

\* ================================================= claims on the chunker
\* What the document holds, read off its lines.
H1Heads == HeadsFrom(doc, "h1", 1)
H2Heads == HeadsFrom(doc, "h2", 1)

\* The lines of heading number p of `heads`: its heading line and what
\* follows up to the next heading of that level.
Block(heads, p) ==
    SubSeq(doc, heads[p], IF p < Len(heads) THEN heads[p + 1] - 1 ELSE Len(doc))

\* Nothing but whitespace follows the heading marker.
BlockBlank(b) ==
    /\ b[1].text = ""
    /\ \A i \in 2..Len(b) : b[i].kind = "text" /\ b[i].text = ""

NonBlankH1 == {p \in 1..Len(H1Heads) : ~BlockBlank(Block(H1Heads, p))}

RECURSIVE NonBlankFrom(_, _)
NonBlankFrom(heads, p) ==
    IF p > Len(heads) THEN <<>>
    ELSE IF BlockBlank(Block(heads, p)) THEN NonBlankFrom(heads, p + 1)
    ELSE <<p>> \o NonBlankFrom(heads, p + 1)

\* The non-blank second-level sections, in document order.
NonBlankH2 == NonBlankFrom(H2Heads, 1)

IsOk(w) == w.ok
OkWrites == SelectSeq(writes, IsOk)
AllWritesOk == \A i \in 1..Len(writes) : writes[i].ok
IsH1Write(w) == w.pos[1] = "h1"
IsH2Write(w) == w.pos[1] = "h2"

\* C6 (as claimed): parsing the same document twice gives every chunk (named
\* by the position of its first heading) the same section_id and the same
\* description in both runs, whatever the outcomes of the chunk writes.
C6_SameIdsOnRerun ==
    (run = 2 /\ pcc = "done") =>
        \A i \in 1..Len(first_run.writes) : \A j \in 1..Len(writes) :
            LET w1 == first_run.writes[i]
                w2 == writes[j]
            IN  (w1.ok /\ w2.ok /\ w1.pos = w2.pos) =>
                    (w1.id = w2.id /\ w1.description = w2.description)

\* C7: when every chunk write succeeds and some top-level heading has a
\* non-blank fragment, the returned entries are exactly one per such heading:
\* the heading at position p among the top-level headings has id
\* <prefix>_chapter_<p> and its title as description, the count is their
\* number, and every chunk body starts at its own heading line, so the text
\* before the first top-level heading is in no chunk.
C7_ChaptersByPosition ==
    (pcc = "done" /\ AllWritesOk /\ NonBlankH1 # {}) =>
        /\ Keys(directory_entries) =
               {<<file_prefix, "chapter", p>> : p \in NonBlankH1}
        /\ Len(directory_entries) = Cardinality(NonBlankH1)
        /\ chunk_count = Cardinality(NonBlankH1)
        /\ Len(writes) = Cardinality(NonBlankH1)
        /\ \A p \in NonBlankH1 :
               LET e == Lookup(directory_entries, <<file_prefix, "chapter", p>>)
               IN  /\ e.description = <<doc[H1Heads[p]].text>>
                   /\ e.chunk_file = <<CHUNKS_DIR, e.id>>
                   /\ \E i \in 1..Len(writes) :
                          /\ writes[i].id = e.id
                          /\ writes[i].content = Strip(Block(H1Heads, p))

\* C7 witness: text, then "# Overview", then "# Specs" in doc.md gave
\* doc_chapter_1/Overview and doc_chapter_2/Specs.
C7_Witness ==
    /\ pcc = "done"
    /\ AllWritesOk
    /\ doc = <<Line("text", "body"), Line("h1", "Overview"), Line("h1", "Specs")>>
    /\ stem = <<"d", "o", "c">>
    /\ directory_entries =
           <<Entry(<<stem, "chapter", 1>>, <<"Overview">>,
                   <<CHUNKS_DIR, <<stem, "chapter", 1>>>>),
             Entry(<<stem, "chapter", 2>>, <<"Specs">>,
                   <<CHUNKS_DIR, <<stem, "chapter", 2>>>>)>>
    /\ chunk_count = 2

\* C8 (as claimed): for a document with at least one top-level heading no
\* <prefix>_group_<n> chunk is written and no such entry is returned,
\* whatever the outcomes of the chunk writes.
C8_NoGroupsWithH1 ==
    Len(H1Heads) >= 1 =>
        /\ \A i \in 1..Len(writes) : writes[i].id[2] # "group"
        /\ \A i \in 1..Len(directory_entries) :
               directory_entries[i].id[2] # "group"

\* C9: batches the fallback is expected to form from m non-blank sections.
NumBatches == (Len(NonBlankH2) + 1) \div 2

BatchMembers(j) ==
    IF 2 * j <= Len(NonBlankH2)
    THEN <<NonBlankH2[2 * j - 1], NonBlankH2[2 * j]>>
    ELSE <<NonBlankH2[2 * j - 1]>>

BatchBody(j) ==
    LET mem == BatchMembers(j)
    IN  IF Len(mem) = 2
        THEN Block(H2Heads, mem[1]) \o <<Line("text", ""), Line("text", "")>>
                 \o Block(H2Heads, mem[2])
        ELSE Block(H2Heads, mem[1])

BatchTitle(j) ==
    LET mem == BatchMembers(j)
    IN  IF Len(mem) = 2
        THEN <<doc[H2Heads[mem[1]]].text, "and", doc[H2Heads[mem[2]]].text>>
        ELSE <<doc[H2Heads[mem[1]]].text>>

\* C9: with no top-level heading and every write succeeding, the fallback
\* writes ceil(m/2) chunks for the m non-blank second-level sections:
\* chunk j is <prefix>_group_<j>, holds sections 2j-1 and 2j in document
\* order described "<first> and <last>", except that for odd m the last
\* chunk holds the last section alone, described by its title; "and others"
\* is never produced.
C9_FallbackPairs ==
    /\ \A i \in 1..Len(writes) :
           writes[i].description[Len(writes[i].description)] # "and others"
    /\ (pcc = "done" /\ Len(H1Heads) = 0 /\ AllWritesOk) =>
        /\ Len(writes) = NumBatches
        /\ Len(directory_entries) = NumBatches
        /\ chunk_count = NumBatches
        /\ \A j \in 1..NumBatches :
               /\ writes[j].id = <<file_prefix, "group", j>>
               /\ writes[j].content = Strip(BatchBody(j))
               /\ writes[j].description = BatchTitle(j)
               /\ directory_entries[j] =
                      Entry(writes[j].id, BatchTitle(j), <<CHUNKS_DIR, writes[j].id>>)

\* C9 witness: three non-blank second-level sections gave a pair and a
\* single.
C9_Witness ==
    /\ pcc = "done"
    /\ Len(H1Heads) = 0
    /\ AllWritesOk
    /\ Len(NonBlankH2) = 3
    /\ Len(directory_entries) = 2
    /\ Len(directory_entries[1].description) = 3
    /\ Len(directory_entries[2].description) = 1

\* C10: a failed chunk write neither stops the run nor leaves an entry:
\* when the function returns, every non-blank top-level fragment was
\* attempted, the fallback (when taken) attempted every batch, the returned
\* entries are exactly those of the writes that succeeded, in order, and the
\* returned count is the number of returned entries.
C10_WriteFailureIsolated ==
    pcc = "done" =>
        /\ directory_entries =
               [i \in 1..Len(OkWrites) |->
                   Entry(OkWrites[i].id, OkWrites[i].description,
                         <<CHUNKS_DIR, OkWrites[i].id>>)]
        /\ chunk_count = Len(directory_entries)
        /\ \A p \in NonBlankH1 :
               \E i \in 1..Len(writes) : writes[i].pos = <<"h1", p>>
        /\ Len(SelectSeq(writes, IsH1Write)) = Cardinality(NonBlankH1)
        /\ (\A i \in 1..Len(writes) : IsH1Write(writes[i]) => ~writes[i].ok)
               => Len(SelectSeq(writes, IsH2Write)) = NumBatches

\* C10 witness: the first write failed, a later one succeeded and is the
\* only entry returned.
C10_Witness ==
    /\ pcc = "done"
    /\ Len(writes) = 2
    /\ ~writes[1].ok
    /\ writes[2].ok
    /\ Len(directory_entries) = 1
    /\ chunk_count = 1

\* =================================================== claims on the query
EventsNamed(name) == {k \in 1..Len(events) : events[k].e = name}

\* The decision is a delegation whose scope, as a list, names an id that is
\* no key of the Directory.
DelegatesOutsideDirectory ==
    /\ agent_a_decision.kind = "object"
    /\ Truthy(agent_a_decision.needs_reference)
    /\ agent_a_decision.scope.type \in {"str", "list"}
    /\ \E i \in 1..Len(agent_a_decision.scope.ids) :
           agent_a_decision.scope.ids[i] \notin Keys(directory)

\* C1: a delegation whose scope names an id that is no key of the Directory
\* ends the query with a message that names exactly the ids of the scope
\* that are absent from the Directory; query_agent_r_single,
\* query_agent_r_multiple and synthesize_response are not called and no
\* chunk file is read.
C1_UnknownScopeRejected ==
    (DelegatesOutsideDirectory /\ pcq # "routed") =>
        /\ pcq = "returned"
        /\ final_response.kind = "missing_scopes"
        /\ {final_response.ids[i] : i \in 1..Len(final_response.ids)} =
               {agent_a_decision.scope.ids[i] :
                    i \in 1..Len(agent_a_decision.scope.ids)} \ Keys(directory)
        /\ \A k \in 1..Len(events) : events[k].e = "query_agent_a"

\* C1 witness: scope [doc_chapter_1, doc_chapter_9] against a Directory that
\* holds doc_chapter_1 and not doc_chapter_9 was rejected naming
\* doc_chapter_9 alone.
C1_Witness ==
    /\ pcq = "returned"
    /\ DelegatesOutsideDirectory
    /\ agent_a_decision.scope.ids =
           <<<<<<"d", "o", "c">>, "chapter", 1>>, <<<<"d", "o", "c">>, "chapter", 9>>>>
    /\ <<<<"d", "o", "c">>, "chapter", 1>> \in Keys(directory)
    /\ final_response = Msg("missing_scopes", <<<<<<"d", "o", "c">>, "chapter", 9>>>>)

IsBodyItem(item) == item.t = "body"
IsErrorItem(item) == item.t = "error"

\* The query went through query_agent_r_multiple.
MultiDispatch == EventsNamed("query_agent_r_multiple") # {}

\* C2: when the reference agent is asked about more than one id and every
\* chunk was read, the bodies in the context are those of scope[1],
\* scope[2], ... in that order, whatever the order of the Directory.
C2_BodiesInScopeOrder ==
    \A k \in EventsNamed("reference_invoke") :
        (MultiDispatch /\ Len(scope_list) > 1
            /\ SelectSeq(events[k].ctx, IsErrorItem) = <<>>) =>
                SelectSeq(events[k].ctx, IsBodyItem) =
                    [i \in 1..Len(scope_list) |->
                        Body(Lookup(directory, scope_list[i]).chunk_file)]

\* C2 witness: scope [doc_chapter_2, doc_chapter_1] against the Directory
\* of the two-heading document (doc_chapter_1 first) put the body of
\* doc_chapter_2 before that of doc_chapter_1.
C2_Witness ==
    /\ directory =
           <<Entry(<<<<"d", "o", "c">>, "chapter", 1>>, <<"Overview">>,
                   <<CHUNKS_DIR, <<<<"d", "o", "c">>, "chapter", 1>>>>),
             Entry(<<<<"d", "o", "c">>, "chapter", 2>>, <<"Specs">>,
                   <<CHUNKS_DIR, <<<<"d", "o", "c">>, "chapter", 2>>>>)>>
    /\ scope_list =
           <<<<<<"d", "o", "c">>, "chapter", 2>>, <<<<"d", "o", "c">>, "chapter", 1>>>>
    /\ \E k \in EventsNamed("reference_invoke") :
           SelectSeq(events[k].ctx, IsBodyItem) =
               <<Body(<<CHUNKS_DIR, <<<<"d", "o", "c">>, "chapter", 2>>>>),
                 Body(<<CHUNKS_DIR, <<<<"d", "o", "c">>, "chapter", 1>>>>)>>

\* C3 (as claimed): in multi-id dispatch the delimiter line of section i
\* carries the description of Directory[scope[i]], for every Directory,
\* also one in which two ids have the same location.
C3_HeaderIsOwnDescription ==
    MultiDispatch =>
        \A k \in 1..Len(combined_chunks) :
            combined_chunks[k].t = "header" =>
                combined_chunks[k].desc =
                    Lookup(directory, scope_list[combined_chunks[k].i]).description

\* C4 (as claimed): in multi-id dispatch a chunk that cannot be read, for
\* whatever reason, never ends the dispatch: once query_agent_r_multiple
\* is over, every file of the scope was read or tried in scope order, and
\* the context holds, per scope id in order, either its body or its error
\* marker.
C4_UnreadableChunkIsolated ==
    (MultiDispatch /\ pcq \in {"synthesize", "returned"}) =>
        /\ [k \in 1..Cardinality(EventsNamed("read")) |->
               LET reads == SelectSeq(events, LAMBDA e : e.e = "read")
               IN  reads[k].file] =
             ChunkFilesOf(scope_list, directory)
        /\ LET parts == SelectSeq(combined_chunks,
                                  LAMBDA item : item.t \in {"body", "error"})
           IN  /\ Len(parts) = Len(scope_list)
               /\ \A i \in 1..Len(parts) :
                      parts[i].file = Lookup(directory, scope_list[i]).chunk_file

\* C5: synthesize_response returns: whenever the synthesis collaborator
\* failed (client or call), the query has returned and its final response
\* is the dispatch result itself.
C5_SynthesisFallback ==
    \A k \in EventsNamed("synthesize_response") :
        /\ pcq = "returned"
        /\ events[k].out # "ok" => final_response = agent_r_response

\* C5 witness: the reference agent answered, the synthesis call failed, and
\* the reference answer is the final response.
C5_Witness ==
    /\ pcq = "returned"
    /\ \E k \in EventsNamed("synthesize_response") : events[k].out = "call_fails"
    /\ agent_r_response = Msg("reference_answer", <<>>)
    /\ final_response = Msg("reference_answer", <<>>)

\* What the gatekeeper call came to (recorded with the call).
GatekeeperOutcome == events[1].out

\* The messages that end a query as Errored: "please rephrase", the scope
\* format message, the missing-sections message and the stock sentence
\* returned for an absent answer.
ErroredKinds == {"rephrase", "scope_format", "missing_scopes", "no_proper_response"}

\* The query ended by returning the decision's "answer" value.
AnsweredDirectly ==
    pcq = "returned" /\ final_response.kind \in {"answer", "answer_not_a_string"}

\* C15 (as claimed): a decision's answer is returned as a direct answer only
\* when needs_reference is the boolean false and "answer" is a string; an
\* object whose flag is absent or no boolean, or whose flag is false with no
\* string answer, ends the query Errored: it is neither answered nor
\* dispatched.
C15_DirectAnswerValidated ==
    /\ AnsweredDirectly =>
           /\ agent_a_decision.needs_reference = "false"
           /\ agent_a_decision.answer = "text"
    /\ (/\ agent_a_decision.kind = "object"
        /\ pcq # "routed"
        /\ \/ agent_a_decision.needs_reference \in {"missing", "truthy", "falsy"}
           \/ /\ agent_a_decision.needs_reference = "false"
              /\ agent_a_decision.answer # "text")
           => (pcq = "returned" /\ final_response.kind \in ErroredKinds)

\* C16 (as claimed): whenever query_agent_r_single or query_agent_r_multiple
\* is entered, or the reference agent is asked, the scope has at least one
\* id, every id of it is a key of the Directory, and sub_query is a
\* non-empty string.
C16_ReferenceOnlyForWellFormed ==
    (EventsNamed("query_agent_r_single") \cup EventsNamed("query_agent_r_multiple")
        \cup EventsNamed("reference_invoke")) # {} =>
            /\ Len(scope_list) >= 1
            /\ \A i \in 1..Len(scope_list) : scope_list[i] \in Keys(directory)
            /\ sub_query = "q"

\* C17 (as claimed): when the gatekeeper call fails, or its text is no JSON,
\* or is JSON but no object, process_user_query returns "please rephrase";
\* the gatekeeper is not asked again and nothing else is called.
C17_UnusableDecisionIsErrored ==
    (pcq \notin {"start", "routed"}
        /\ GatekeeperOutcome \in {"call_fails", "malformed_json", "number", "array"}) =>
            /\ pcq = "returned"
            /\ final_response = Msg("rephrase", <<>>)
            /\ Len(events) = 1

\* Positions of process_user_query from which a step follows.
QueryRunning ==
    pcq \in {"start", "routed", "single_read", "single_invoke", "multi_loop",
             "synthesize"}

\* C18 (as claimed): the query lifecycle.  The gatekeeper is asked exactly
\* once; the reference agent at most once, and only after a delegation;
\* synthesis at most once, and only after the dispatch; the direct path and
\* an Errored query call neither; and a query that has come to its end has
\* returned a message for the user (Answered or Errored).
C18_QueryLifecycle ==
    /\ pcq # "start" => Cardinality(EventsNamed("query_agent_a")) = 1
    /\ Cardinality(EventsNamed("reference_invoke")) <= 1
    /\ Cardinality(EventsNamed("synthesize_response")) <= 1
    /\ EventsNamed("reference_invoke") # {} =>
           /\ Truthy(agent_a_decision.needs_reference)
           /\ MissingScopes(scope_list, directory) = <<>>
    /\ EventsNamed("synthesize_response") # {} =>
           agent_r_response # NoMsg
    /\ (AnsweredDirectly \/ (pcq = "returned" /\ final_response.kind \in ErroredKinds))
           => Len(events) = 1
    /\ (pcq # "off" /\ ~QueryRunning) =>
           (pcq = "returned" /\ final_response # NoMsg)

\* ====================================================== the directory store
\* load_directory, save_directory, the merge of load_document and of
\* build_knowledge_directory, and main's reload after a load command.

\* What load_directory comes to: it raises, or it returns a value.
Returned(mapping, d) == [raised |-> FALSE, mapping |-> mapping, d |-> d]
Raised == [raised |-> TRUE, mapping |-> FALSE, d |-> <<>>]

\* lines 60-70.  An absent file gives {} (lines 62-63).  Only
\* json.JSONDecodeError and FileNotFoundError are caught (line 68): text that
\* is no JSON gives {}, while an open or a decoding that fails otherwise
\* (PermissionError, IsADirectoryError, UnicodeDecodeError) raises.  What
\* json.load returns is returned as it is, a mapping or not (line 67).
LoadDirectory(file) ==
    CASE file.state = "absent" -> Returned(TRUE, <<>>)
      [] file.state = "unreadable" -> Raised
      [] file.state = "unparsable" -> Returned(TRUE, <<>>)
      [] file.state = "not_object" -> Returned(FALSE, <<>>)
      [] OTHER -> Returned(TRUE, file.dir)

\* How a save_directory call goes: the file is opened and written through,
\* the open raises, or the open succeeds (the file is cut to length 0) and
\* the writing raises before json.dump has written the whole text.
SaveOutcomes == {"ok", "open_fails", "write_fails"}

\* lines 72-78: the file is opened with mode 'w' and json.dump writes into
\* it; every exception is caught and printed.
SaveDirectory(file, value, outcome) ==
    CASE outcome = "ok" ->
            IF value.mapping THEN File("valid", value.d)
            ELSE File("not_object", <<>>)
      [] outcome = "open_fails" -> file
      [] OTHER -> File("unparsable", <<>>)

\* Mutant of DictUpdate: an id the base has keeps the base's entry
\* (setdefault for every incoming entry).
DictUpdate_keepExisting(d, other) ==
    d \o SelectSeq(other, LAMBDA e : e.id \notin Keys(d))

\* Mutant of DictUpdate: the incoming entries replace the Directory.
DictUpdate_replace(d, other) == other

\* directory.update(new_entries): line 257, and build_knowledge.py line 77.
RECURSIVE DictUpdate(_, _)
DictUpdate(d, other) ==
    IF other = <<>> THEN d
    ELSE DictUpdate(DictSet(d, Head(other)), Tail(other))

\* One record of the history.
LogRec(op, file, file_after, base, incoming, result, raised, mapping) ==
    [op |-> op, file |-> file, file_after |-> file_after, base |-> base,
     incoming |-> incoming, result |-> result, raised |-> raised,
     mapping |-> mapping]

LoadRec(file, r) ==
    LogRec("load_directory", file, file, <<>>, <<>>, r.d, r.raised, r.mapping)

UpdateRec(file, base, incoming, result) ==
    LogRec("update", file, file, base, incoming, result, FALSE, TRUE)

SaveRec(file, file_after, value) ==
    LogRec("save_directory", file, file_after, <<>>, <<>>, value.d, FALSE,
           value.mapping)

\* The ids and descriptions the parsed files give.
ParsedIds == {SectionId(<<"d", "o", "c">>, "chapter", n) : n \in {1, 2}}
ParsedDescriptions == {<<"Intro">>, <<"Specs">>}

\* What parse_markdown_document can return for a file: no entry (with
\* chunk_count 0), or entries with ids in the order of the chapters, each
\* with the location of its own chunk file (lines 134-154).
ParseResults ==
    {<<>>}
    \cup {<<Entry(id, t, ChunkFile(id))>> : id \in ParsedIds, t \in ParsedDescriptions}
    \cup {<<Entry(SectionId(<<"d", "o", "c">>, "chapter", 1), t1,
                  ChunkFile(SectionId(<<"d", "o", "c">>, "chapter", 1))),
            Entry(SectionId(<<"d", "o", "c">>, "chapter", 2), t2,
                  ChunkFile(SectionId(<<"d", "o", "c">>, "chapter", 2)))>> :
              t1 \in ParsedDescriptions, t2 \in ParsedDescriptions}

\* The markdown files of the knowledge folder (build_knowledge.py lines
\* 47-49); with none of them the build ends before it loads anything (lines
\* 51-54).
KnowledgeFiles == {"teleportation_manual.md", "planet_kepler_vorthak.md"}

\* What directory.json can hold when a command starts.
StoredFiles ==
    {File(st, <<>>) : st \in {"absent", "unreadable", "unparsable", "not_object"}}
    \cup {File("valid", d) : d \in Directories}

\* The Directory main holds: what it loaded when it started.
MainDirectory(file) ==
    IF file.state = "valid" THEN file.dir ELSE <<>>

StoreInit ==
    /\ directory_file \in StoredFiles
    /\ pcs \in {"ld_start", "bk_start"}
    /\ files \in UNION {[1..n -> ParseResults] : n \in 1..Cardinality(KnowledgeFiles)}
    /\ pcs = "ld_start" => Len(files) = 1
    /\ new_entries = <<>>
    /\ directory_local = Value(TRUE, <<>>)
    /\ store_log = <<>>
    /\ directory = MainDirectory(directory_file)
    \* no query is processed, no document is parsed step by step and no
    \* demo runs while the store is studied
    /\ pcq = "off"
    /\ agent_a_decision = NoDecision
    /\ sub_query = "<missing>"
    /\ scope_list = <<>>
    /\ chunk_files = <<>>
    /\ combined_chunks = <<>>
    /\ agent_r_response = NoMsg
    /\ final_response = NoMsg
    /\ events = <<>>
    /\ doc = <<>>
    /\ stem = <<"d", "o", "c">>
    /\ run = 1
    /\ pcc = "off"
    /\ h1_idx = 0
    /\ h2_i = 0
    /\ directory_entries = <<>>
    /\ chunk_count = 0
    /\ current_chunk_sections = <<>>
    /\ current_chunk_titles = <<>>
    /\ writes = <<>>
    /\ first_run = NoRun
    /\ pcd = "off"

\* lines 236-254: load_document parses the file; with no chunk it returns
\* False.
LDParse ==
    /\ pcs = "ld_start"
    /\ new_entries' = Head(files)
    /\ files' = Tail(files)
    /\ pcs' = IF Len(Head(files)) = 0 THEN "ld_false" ELSE "ld_load"
    /\ UNCHANGED <<directory_file, directory_local, store_log>>
    /\ UNCHANGED <<cvars, qvars, dvars>>

\* line 256: directory = load_directory().  An exception leaves
\* load_document.
LDLoadDirectory ==
    /\ pcs = "ld_load"
    /\ LET r == LoadDirectory(directory_file)
       IN  /\ store_log' = Append(store_log, LoadRec(directory_file, r))
           /\ IF r.raised
              THEN /\ pcs' = "raised"
                   /\ UNCHANGED directory_local
              ELSE /\ pcs' = "ld_update"
                   /\ directory_local' = Value(r.mapping, r.d)
    /\ UNCHANGED <<directory_file, files, new_entries>>
    /\ UNCHANGED <<cvars, qvars, dvars>>

\* line 257: directory.update(new_entries).  A value that is no mapping has
\* no update: AttributeError leaves load_document.
LDUpdate ==
    /\ pcs = "ld_update"
    /\ IF directory_local.mapping
       THEN LET merged == DictUpdate(directory_local.d, new_entries)
            IN  /\ directory_local' = Value(TRUE, merged)
                /\ store_log' = Append(store_log,
                       UpdateRec(directory_file, directory_local.d,
                                 new_entries, merged))
                /\ pcs' = "ld_save"
       ELSE /\ pcs' = "raised"
            /\ UNCHANGED <<directory_local, store_log>>
    /\ UNCHANGED <<directory_file, files, new_entries>>
    /\ UNCHANGED <<cvars, qvars, dvars>>

\* lines 260-265: save_directory(directory), the two prints, return True:
\* whatever became of the save.
LDSave(outcome) ==
    /\ pcs = "ld_save"
    /\ directory_file' = SaveDirectory(directory_file, directory_local, outcome)
    /\ store_log' = Append(store_log,
           SaveRec(directory_file, directory_file', directory_local))
    /\ pcs' = "ld_true"
    /\ UNCHANGED <<files, new_entries, directory_local>>
    /\ UNCHANGED <<cvars, qvars, dvars>>

\* lines 631-635: load_document returned True, main loads the Directory
\* again.  An exception is caught by the loop (lines 646-648) and main keeps
\* the Directory it had.
MainReload ==
    /\ pcs = "ld_true"
    /\ LET r == LoadDirectory(directory_file)
       IN  /\ store_log' = Append(store_log, LoadRec(directory_file, r))
           /\ IF r.raised
              THEN /\ pcs' = "raised"
                   /\ UNCHANGED directory
              ELSE /\ pcs' = "main_reloaded"
                   /\ directory' = r.d
    /\ UNCHANGED <<directory_file, files, new_entries, directory_local>>
    /\ UNCHANGED <<pcq, agent_a_decision, sub_query, scope_list, chunk_files,
                   combined_chunks, agent_r_response, final_response, events>>
    /\ UNCHANGED <<cvars, dvars>>

\* build_knowledge.py line 62: directory = load_directory().
BKLoadDirectory ==
    /\ pcs = "bk_start"
    /\ LET r == LoadDirectory(directory_file)
       IN  /\ store_log' = Append(store_log, LoadRec(directory_file, r))
           /\ IF r.raised
              THEN /\ pcs' = "raised"
                   /\ UNCHANGED directory_local
              ELSE /\ pcs' = "bk_loop"
                   /\ directory_local' = Value(r.mapping, r.d)
    /\ UNCHANGED <<directory_file, files, new_entries>>
    /\ UNCHANGED <<cvars, qvars, dvars>>

\* build_knowledge.py lines 65-85: the next file is parsed; when it gave
\* chunks its entries are merged into the Directory.
BKFile ==
    /\ pcs = "bk_loop"
    /\ files # <<>>
    /\ new_entries' = Head(files)
    /\ files' = Tail(files)
    /\ IF Len(Head(files)) = 0
       THEN UNCHANGED <<pcs, directory_local, store_log>>
       ELSE IF directory_local.mapping
            THEN LET merged == DictUpdate(directory_local.d, Head(files))
                 IN  /\ directory_local' = Value(TRUE, merged)
                     /\ store_log' = Append(store_log,
                            UpdateRec(directory_file, directory_local.d,
                                      Head(files), merged))
                     /\ UNCHANGED pcs
            ELSE /\ pcs' = "raised"
                 /\ UNCHANGED <<directory_local, store_log>>
    /\ UNCHANGED directory_file
    /\ UNCHANGED <<cvars, qvars, dvars>>

\* build_knowledge.py line 88: save_directory(directory) after the loop.
BKSave(outcome) ==
    /\ pcs = "bk_loop"
    /\ files = <<>>
    /\ directory_file' = SaveDirectory(directory_file, directory_local, outcome)
    /\ store_log' = Append(store_log,
           SaveRec(directory_file, directory_file', directory_local))
    /\ pcs' = "bk_done"
    /\ UNCHANGED <<files, new_entries, directory_local>>
    /\ UNCHANGED <<cvars, qvars, dvars>>

StoreNext ==
    \/ LDParse
    \/ LDLoadDirectory
    \/ LDUpdate
    \/ \E outcome \in SaveOutcomes : LDSave(outcome)
    \/ MainReload
    \/ BKLoadDirectory
    \/ BKFile
    \/ \E outcome \in SaveOutcomes : BKSave(outcome)

\* load_document followed by main's reload, or build_knowledge_directory,
\* against any state of directory.json.
SpecStore == StoreInit /\ [][StoreNext]_vars

\* A Directory as the mapping it is: its entries without their order.
AsMapping(d) == {d[i] : i \in 1..Len(d)}

LogOf(op) == {i \in 1..Len(store_log) : store_log[i].op = op}

\* C11: every merge is a key-wise union in which the incoming entry wins:
\* the ids of the result are those of the base and of the incoming mapping,
\* an id of the incoming mapping carries the whole incoming entry, and an id
\* only the base has keeps its entry.
C11_MergeIncomingWins ==
    \A i \in LogOf("update") :
        LET m == store_log[i]
        IN  /\ Keys(m.result) = Keys(m.base) \cup Keys(m.incoming)
            /\ Len(m.result) = Cardinality(Keys(m.result))
            /\ \A id \in Keys(m.incoming) :
                   Lookup(m.result, id) = Lookup(m.incoming, id)
            /\ \A id \in Keys(m.base) \ Keys(m.incoming) :
                   Lookup(m.result, id) = Lookup(m.base, id)

\* A merge in which an id of both sides had another description and another
\* location in the base, beside an id only the base has.
C11_Witness ==
    \E i \in LogOf("update") :
        LET m == store_log[i]
        IN  /\ \E id \in Keys(m.base) \cap Keys(m.incoming) :
                   /\ Lookup(m.base, id).description # Lookup(m.incoming, id).description
                   /\ Lookup(m.base, id).chunk_file # Lookup(m.incoming, id).chunk_file
            /\ Keys(m.base) \ Keys(m.incoming) # {}

\* The two merges of a build over two files that both gave chunks.
TwoMerges == pcs \in {"bk_loop", "bk_done"} /\ Cardinality(LogOf("update")) = 2

\* C12: with A merged before B, the result is the one B before A gives when
\* A and B share no id; an id both have carries the entry of B, the one
\* merged last.
C12_MergeOrder ==
    TwoMerges =>
        LET i == CHOOSE k \in LogOf("update") : \A j \in LogOf("update") : k <= j
            k == CHOOSE k \in LogOf("update") : \A j \in LogOf("update") : j <= k
            base == store_log[i].base
            A == store_log[i].incoming
            B == store_log[k].incoming
            AB == store_log[k].result
        IN  /\ Keys(A) \cap Keys(B) = {} =>
                   AsMapping(AB) = AsMapping(DictUpdate(DictUpdate(base, B), A))
            /\ \A id \in Keys(A) \cap Keys(B) : Lookup(AB, id) = Lookup(B, id)

\* A build over two files with no id in common, merged into a Directory
\* that was not empty.
C12_Witness ==
    /\ TwoMerges
    /\ LET i == CHOOSE k \in LogOf("update") : \A j \in LogOf("update") : k <= j
           k == CHOOSE k \in LogOf("update") : \A j \in LogOf("update") : j <= k
           A == store_log[i].incoming
           B == store_log[k].incoming
       IN  /\ Keys(A) \cap Keys(B) = {}
           /\ store_log[i].base # <<>>

\* C13 (as claimed): load_directory never raises and always returns a
\* mapping: the stored Directory when the file holds one, and the empty
\* mapping when the file is absent, cannot be read or cannot be parsed.
C13_LoadNeverRaises ==
    \A i \in LogOf("load_directory") :
        LET l == store_log[i]
        IN  /\ ~l.raised
            /\ l.mapping
            /\ l.file.state = "valid" => l.result = l.file.dir
            /\ l.file.state \in {"absent", "unreadable", "unparsable"} =>
                   l.result = <<>>

\* C14 (as claimed): save_directory never raises and writes all or nothing:
\* after it the file holds the whole Directory it was given, or what it held
\* before the call.
C14_SaveAtomic ==
    \A i \in LogOf("save_directory") :
        LET w == store_log[i]
        IN  /\ ~w.raised
            /\ \/ w.file_after = w.file
               \/ w.mapping /\ w.file_after = File("valid", w.result)

\* C19 (as claimed): once load_document has returned True, directory.json
\* holds a Directory with every entry the parse returned, and the Directory
\* main loads next has all their ids: whatever became of the save.
C19_TrueMeansPersisted ==
    /\ pcs \in {"ld_true", "main_reloaded"} =>
           /\ directory_file.state = "valid"
           /\ \A i \in 1..Len(new_entries) :
                  /\ new_entries[i].id \in Keys(directory_file.dir)
                  /\ Lookup(directory_file.dir, new_entries[i].id) = new_entries[i]
    /\ pcs = "main_reloaded" =>
           Keys(new_entries) \subseteq Keys(directory)

\* ================================================================= the demo
\* demo_system.py: simulate_agent_a_decision and the loop of demo_system.

\* The stems of the two knowledge files the demo speaks of.
DemoStems ==
    {<<"teleportation", "_", "manual">>,
     <<"planet", "_", "kepler", "_", "vorthak">>}

\* The words an id can carry between its prefix and its number: those the
\* chunker writes (lines 136, 180 and 211), and the one of the ids written
\* out in demo_system.py (lines 50-58 and 71-81).
ChunkKinds == {"chapter", "group"}
DemoKind == "section"

\* An id string read by its last two words, as SectionId builds it:
\* "teleportation_manual_section_1" is prefix teleportation_manual, word
\* section, number 1.
TeleportScope(n) == <<FilePrefix(<<"teleportation", "_", "manual">>), DemoKind, n>>
PlanetScope(n) == <<FilePrefix(<<"planet", "_", "kepler", "_", "vorthak">>), DemoKind, n>>

\* What simulate_agent_a_decision looks at in a query: whether a teleport
\* keyword and whether a planet keyword occurs, the first of the word groups
\* of lines 50-56 and of lines 71-79 with a word in the query (0: none), and
\* whether a phrase of general_questions occurs.
DemoQueries ==
    [teleport : BOOLEAN, planet : BOOLEAN, tword : 0..4, pword : 0..5,
     general : BOOLEAN]

\* demo_system.py lines 23-106.
simulate_agent_a_decision(q) ==
    IF q.teleport
    THEN Decision("object", "true", "<missing>",
                  Scope("str", <<TeleportScope(IF q.tword = 0 THEN 1 ELSE q.tword)>>),
                  "q")
    ELSE IF q.planet
         THEN Decision("object", "true", "<missing>",
                       Scope("str", <<PlanetScope(IF q.pword = 0 THEN 1 ELSE q.pword)>>),
                       "q")
         ELSE Decision("object", "false", "text", NoScope, "<missing>")

\* The ids directory.json can hold when the demo starts: those the chunker
\* gives the two files, and ids of the demo's own form.
DemoIds ==
    {<<FilePrefix(st), k, n>> : st \in DemoStems,
                               k \in ChunkKinds \cup {DemoKind}, n \in {1, 2}}

DemoDirectories ==
    {d \in UNION {[1..n -> {Entry(id, <<"Overview">>, ChunkFile(id)) : id \in DemoIds}] :
                     n \in 0..MaxDir} :
        \A i, j \in 1..Len(d) : i # j => d[i].id # d[j].id}

\* The chunker wrote every entry of the Directory.
BuiltByChunker(d) == \A id \in Keys(d) : id[2] \in ChunkKinds

DemoInit ==
    /\ directory \in DemoDirectories
    /\ pcd = "start"
    /\ agent_a_decision = NoDecision
    /\ final_response = NoMsg
    \* the other programs do not run while the demo is studied
    /\ pcq = "off"
    /\ sub_query = "<missing>"
    /\ scope_list = <<>>
    /\ chunk_files = <<>>
    /\ combined_chunks = <<>>
    /\ agent_r_response = NoMsg
    /\ events = <<>>
    /\ doc = <<>>
    /\ stem = <<"d", "o", "c">>
    /\ run = 1
    /\ pcc = "off"
    /\ h1_idx = 0
    /\ h2_i = 0
    /\ directory_entries = <<>>
    /\ chunk_count = 0
    /\ current_chunk_sections = <<>>
    /\ current_chunk_titles = <<>>
    /\ writes = <<>>
    /\ first_run = NoRun
    /\ directory_file = File("absent", <<>>)
    /\ pcs = "off"
    /\ files = <<>>
    /\ new_entries = <<>>
    /\ directory_local = Value(TRUE, <<>>)
    /\ store_log = <<>>

DemoFrame ==
    /\ UNCHANGED <<directory, pcq, sub_query, scope_list, chunk_files,
                   combined_chunks, agent_r_response, events>>
    /\ UNCHANGED <<cvars, svars>>

\* demo_system.py lines 138-142: with an empty Directory the demo ends.
DemoStart ==
    /\ pcd = "start"
    /\ pcd' = IF directory = <<>> THEN "ended" ELSE "prompt"
    /\ UNCHANGED <<agent_a_decision, final_response>>
    /\ DemoFrame

\* demo_system.py lines 160-175: a query is read and the decision simulated.
DemoQuery(q) ==
    /\ pcd = "prompt"
    /\ agent_a_decision' = simulate_agent_a_decision(q)
    /\ pcd' = "decided"
    /\ UNCHANGED final_response
    /\ DemoFrame

\* demo_system.py lines 178-182: the direct answer is shown.
DemoDirect ==
    /\ pcd = "decided"
    /\ ~Truthy(agent_a_decision.needs_reference)
    /\ final_response' = Msg("answer", <<>>)
    /\ pcd' = "prompt"
    /\ UNCHANGED agent_a_decision
    /\ DemoFrame

\* demo_system.py lines 184-202: the scope is a key of the Directory: its
\* chunk is consulted.
DemoConsult ==
    /\ pcd = "decided"
    /\ Truthy(agent_a_decision.needs_reference)
    /\ agent_a_decision.scope.ids[1] \in Keys(directory)
    /\ final_response' = Msg("consulted", agent_a_decision.scope.ids)
    /\ pcd' = "prompt"
    /\ UNCHANGED agent_a_decision
    /\ DemoFrame

\* demo_system.py lines 204-205: "Section ... not found in knowledge base."
DemoNotFound ==
    /\ pcd = "decided"
    /\ Truthy(agent_a_decision.needs_reference)
    /\ agent_a_decision.scope.ids[1] \notin Keys(directory)
    /\ final_response' = Msg("not_found", agent_a_decision.scope.ids)
    /\ pcd' = "prompt"
    /\ UNCHANGED agent_a_decision
    /\ DemoFrame

\* demo_system.py lines 167-169: quit.
DemoQuit ==
    /\ pcd = "prompt"
    /\ pcd' = "ended"
    /\ UNCHANGED <<agent_a_decision, final_response>>
    /\ DemoFrame

DemoNext ==
    \/ DemoStart
    \/ \E q \in DemoQueries : DemoQuery(q)
    \/ DemoDirect
    \/ DemoConsult
    \/ DemoNotFound
    \/ DemoQuit

SpecDemo == DemoInit /\ [][DemoNext]_vars

\* C20 (as claimed): every id simulate_agent_a_decision puts into a
\* delegation has a form the chunker assigns, <prefix>_chapter_<n> or
\* <prefix>_group_<n>; and so no delegation is turned down as not found
\* for its form alone: when one is, the chunker could have written its id.
C20_DemoIdsAssignable ==
    (pcd = "decided" /\ Truthy(agent_a_decision.needs_reference)) =>
        \E prefix \in {FilePrefix(st) : st \in DemoStems}, k \in ChunkKinds, n \in 1..5 :
            agent_a_decision.scope.ids[1] = SectionId(prefix, k, n)

====
